---------------------------- MODULE Spec2Model ----------------------------
(***************************************************************************)
(* A model of deal.II's Patterns namespace (include/deal.II/base/          *)
(* patterns.h): the pattern variants, the rank inference RankInfo<T> and   *)
(* the conversion engine Patterns::Tools::Convert<T>.                      *)
(*                                                                         *)
(* Texts (std::string) are sequences of one-character strings.  Types T    *)
(* are records naming the template instantiation; patterns are records     *)
(* naming the variant and its data members.                                *)
(***************************************************************************)
EXTENDS Integers, Sequences, FiniteSets, TLC

VARIABLES T, value, pat, str, res, pc, oob

vars == <<T, value, pat, str, res, pc, oob>>

-----------------------------------------------------------------------------
(* Bounds of the model.                                                    *)

\* Width of int / unsigned int in bits (the program's 32 at reduced scale).
IntBits == 12
\* Width of char / unsigned char in bits.
CharBits == 8
\* Deepest nesting of template instantiations explored by SpecType.
MaxNest == 5
\* Largest number of elements of a container value explored by SpecConv.
MaxLen == 2

-----------------------------------------------------------------------------
(* Arithmetic helpers.                                                     *)

RECURSIVE Pow2(_)
Pow2(n) == IF n = 0 THEN 1 ELSE 2 * Pow2(n - 1)

Max(a, b) == IF a >= b THEN a ELSE b

\* Conversion of an integral value to a two's complement int of IntBits bits.
ToInt(x) ==
  LET m == Pow2(IntBits)
      r == x % m
  IN  IF r >= Pow2(IntBits - 1) THEN r - m ELSE r

INT_MIN == -Pow2(IntBits - 1)
INT_MAX == Pow2(IntBits - 1) - 1
UINT_MAX == Pow2(IntBits) - 1

-----------------------------------------------------------------------------
(* Texts.                                                                  *)

Txt1(c) == <<c>>

DigitChars == <<"0", "1", "2", "3", "4", "5", "6", "7", "8", "9">>

IsDigit(c) == \E i \in 1..10 : DigitChars[i] = c

DigitValue(c) == (CHOOSE i \in 1..10 : DigitChars[i] = c) - 1

RECURSIVE NatToText(_)
NatToText(n) ==
  IF n < 10 THEN <<DigitChars[n + 1]>>
  ELSE NatToText(n \div 10) \o <<DigitChars[(n % 10) + 1]>>

\* std::to_string on an integral value.
IntToText(n) == IF n < 0 THEN <<"-">> \o NatToText(-n) ELSE NatToText(n)

RECURSIVE StripLeft(_)
StripLeft(s) == IF s # <<>> /\ Head(s) = " " THEN StripLeft(Tail(s)) ELSE s

RECURSIVE StripRight(_)
StripRight(s) ==
  IF s # <<>> /\ s[Len(s)] = " " THEN StripRight(SubSeq(s, 1, Len(s) - 1)) ELSE s

Trim(s) == StripRight(StripLeft(s))

\* std::string::find: the first position at which d occurs in s, 0 if none.
Find(s, d) ==
  LET hits == {i \in 1..(Len(s) - Len(d) + 1) : SubSeq(s, i, i + Len(d) - 1) = d}
  IN  IF hits = {} THEN 0 ELSE CHOOSE i \in hits : \A j \in hits : i <= j

-----------------------------------------------------------------------------
(* Separator tables.                                                       *)

\* A faulty variant of default_list_separator: the table in reverse order.
default_list_separator_reversed == <<Txt1("%"), Txt1("|"), Txt1(";"), Txt1(",")>>

default_list_separator == <<Txt1(","), Txt1(";"), Txt1("|"), Txt1("%")>>

default_map_separator == <<Txt1(":"), Txt1("="), Txt1("@"), Txt1("#")>>

\* std::array<std::string, 4>::operator[] with a zero-based index: an index
\* outside 0..3 reads past the array, which yields whatever the build finds
\* there (o).
list_separator_at(i, o) ==
  IF i \in 0..(Len(default_list_separator) - 1)
  THEN default_list_separator[i + 1] ELSE o

map_separator_at(i, o) ==
  IF i \in 0..(Len(default_map_separator) - 1)
  THEN default_map_separator[i + 1] ELSE o

-----------------------------------------------------------------------------
(* Types: the template arguments T of RankInfo<T> and Convert<T>.          *)

Arith(t) == [kind |-> "arithmetic", type |-> t]

String == [kind |-> "string"]

ListOf(c, V) == [kind |-> "list", container |-> c, value_type |-> V]

MapOf(K, V) == [kind |-> "map", key_type |-> K, mapped_type |-> V]

TensorOf(r, d, N) == [kind |-> "Tensor", rank |-> r, dim |-> d, Number |-> N]

PointOf(d, N) == [kind |-> "Point", dim |-> d, Number |-> N]

ComplexOf(N) == [kind |-> "complex", Number |-> N]

PairOf(K, V) == [kind |-> "pair", Key |-> K, Value |-> V]

is_list_compatible(S) == S.kind = "list"

is_map_compatible(S) == S.kind = "map"

\* Tensor<rank,dim,Number>::value_type: the tensor of one rank less, and
\* Number itself below rank 1.
Tensor_value_type(S) ==
  IF S.rank > 1 THEN TensorOf(S.rank - 1, S.dim, S.Number) ELSE S.Number

RECURSIVE RankInfo(_)

\* The primary template: elementary types.
RankInfo_primary(S) == [list_rank |-> 0, map_rank |-> 0]

\* A faulty variant of RankInfo_list: the map rank grows with the list rank.
RankInfo_list_raising_map_rank(S) ==
  LET inner == RankInfo(S.value_type)
  IN  [list_rank |-> inner.list_rank + 1, map_rank |-> inner.map_rank + 1]

RankInfo_list(S) ==
  LET inner == RankInfo(S.value_type)
  IN  [list_rank |-> inner.list_rank + 1, map_rank |-> inner.map_rank]

RankInfo_map(S) ==
  LET key == RankInfo(S.key_type)
      mapped == RankInfo(S.mapped_type)
  IN  [list_rank |-> Max(key.list_rank, mapped.list_rank) + 1,
       map_rank  |-> Max(key.map_rank, mapped.map_rank) + 1]

RankInfo_Tensor(S) ==
  LET number == RankInfo(S.Number)
  IN  [list_rank |-> S.rank + number.list_rank, map_rank |-> number.map_rank]

RankInfo_Point(S) == RankInfo_Tensor(TensorOf(1, S.dim, S.Number))

\* A faulty variant of RankInfo_pair: the pair counts as a list level, as a
\* map does.
RankInfo_pair_raising_list_rank(S) ==
  LET key == RankInfo(S.Key)
      val == RankInfo(S.Value)
  IN  [list_rank |-> Max(key.list_rank, val.list_rank) + 1,
       map_rank  |-> Max(key.map_rank, val.map_rank) + 1]

RankInfo_complex(S) ==
  LET number == RankInfo(S.Number)
  IN  [list_rank |-> number.list_rank + 1, map_rank |-> number.map_rank]

RankInfo_pair(S) ==
  LET key == RankInfo(S.Key)
      val == RankInfo(S.Value)
  IN  [list_rank |-> Max(key.list_rank, val.list_rank),
       map_rank  |-> Max(key.map_rank, val.map_rank) + 1]

RankInfo(S) ==
  CASE is_list_compatible(S) -> RankInfo_list(S)
    [] is_map_compatible(S)  -> RankInfo_map(S)
    [] S.kind = "Tensor"     -> RankInfo_Tensor(S)
    [] S.kind = "Point"      -> RankInfo_Point(S)
    [] S.kind = "complex"    -> RankInfo_complex(S)
    [] S.kind = "pair"       -> RankInfo_pair(S)
    [] OTHER                 -> RankInfo_primary(S)

-----------------------------------------------------------------------------
(* Pattern variants: the data members each constructor stores.             *)

Integer(lower, upper) ==
  [variant |-> "Integer", lower_bound |-> lower, upper_bound |-> upper]

Double(lower, upper) ==
  [variant |-> "Double", lower_bound |-> lower, upper_bound |-> upper]

List(base_pattern, min, max, sep) ==
  [variant |-> "List", pattern |-> base_pattern, min_elements |-> min,
   max_elements |-> max, separator |-> sep]

Map(key, val, min, max, sep, kv_sep) ==
  [variant |-> "Map", key_pattern |-> key, value_pattern |-> val,
   min_elements |-> min, max_elements |-> max, separator |-> sep,
   key_value_separator |-> kv_sep]

Anything == [variant |-> "Anything"]

NoPattern == [variant |-> "none"]

\* Selection's constructor: spaces around the pipe signs are eliminated.
RECURSIVE StripAroundPipes(_)
StripAroundPipes(seq) ==
  LET a == Find(seq, <<" ", "|">>)
      b == Find(seq, <<"|", " ">>)
  IN  IF a # 0
      THEN StripAroundPipes(SubSeq(seq, 1, a - 1) \o SubSeq(seq, a + 1, Len(seq)))
      ELSE IF b # 0
      THEN StripAroundPipes(SubSeq(seq, 1, b) \o SubSeq(seq, b + 2, Len(seq)))
      ELSE seq

Selection(seq) == [variant |-> "Selection", sequence |-> StripAroundPipes(seq)]

MultipleSelection(seq) ==
  [variant |-> "MultipleSelection", sequence |-> StripAroundPipes(seq)]

\* Bool is the Selection of "true|false".
Bool ==
  [variant |-> "Bool",
   sequence |-> <<"t", "r", "u", "e", "|", "f", "a", "l", "s", "e">>]

FileName(type) == [variant |-> "FileName", file_type |-> type]

DirectoryName == [variant |-> "DirectoryName"]

-----------------------------------------------------------------------------
(* std::numeric_limits of the arithmetic types.                            *)

IntegralTypes == {"char", "unsigned char", "int", "unsigned int"}

\* The largest finite double, on the model's fixed-point scale.
DBL_MAX == Pow2(30) + (Pow2(30) - 1)

numeric_limits_min(t) ==
  CASE t = "char"          -> -Pow2(CharBits - 1)
    [] t = "unsigned char" -> 0
    [] t = "int"           -> INT_MIN
    [] t = "unsigned int"  -> 0

numeric_limits_max(t) ==
  CASE t = "char"          -> Pow2(CharBits - 1) - 1
    [] t = "unsigned char" -> Pow2(CharBits) - 1
    [] t = "int"           -> INT_MAX
    [] t = "unsigned int"  -> UINT_MAX
    [] t = "double"        -> DBL_MAX

-----------------------------------------------------------------------------
(* Convert<T>::to_pattern().  o is what a read past the end of a separator *)
(* table yields.                                                           *)

RECURSIVE to_pattern(_, _)

\* The Integer constructor takes int arguments: the limits of T are
\* converted to int.
to_pattern_arithmetic(S) ==
  IF S.type = "bool" THEN Bool
  ELSE IF S.type \in IntegralTypes
  THEN Integer(ToInt(numeric_limits_min(S.type)),
               ToInt(numeric_limits_max(S.type)))
  ELSE Double(-numeric_limits_max(S.type), numeric_limits_max(S.type))

\* A faulty variant of to_pattern_list_subscript: every level reads the first
\* entry of the list table.
to_pattern_list_subscript_first_entry(S) == 0

\* A faulty variant of to_pattern_map_subscript: the map table is read with
\* the list rank.
to_pattern_map_subscript_by_list_rank(S) == RankInfo(S).list_rank - 1

\* The subscripts with which a to_pattern() reads the two separator tables.
to_pattern_list_subscript(S) == RankInfo(S).list_rank - 1

to_pattern_map_subscript(S) == RankInfo(S).map_rank - 1

\* The pair keeps the list separator "of the previous level": the list table
\* is read at list_rank, not at list_rank - 1.
to_pattern_pair_list_subscript(S) == RankInfo(S).list_rank

to_pattern_list(S, o) ==
  List(to_pattern(S.value_type, o), 0, UINT_MAX,
       list_separator_at(to_pattern_list_subscript(S), o))

to_pattern_map(S, o) ==
  Map(to_pattern(S.key_type, o), to_pattern(S.mapped_type, o), 0, UINT_MAX,
      list_separator_at(to_pattern_list_subscript(S), o),
      map_separator_at(to_pattern_map_subscript(S), o))

\* A faulty variant of to_pattern_Tensor: a List of any length.
to_pattern_Tensor_of_any_length(S, o) ==
  List(to_pattern(Tensor_value_type(S), o), 0, UINT_MAX,
       list_separator_at(to_pattern_list_subscript(S), o))

to_pattern_Tensor(S, o) ==
  List(to_pattern(Tensor_value_type(S), o), S.dim, S.dim,
       list_separator_at(to_pattern_list_subscript(S), o))

to_pattern_Point(S, o) == to_pattern_Tensor(TensorOf(1, S.dim, S.Number), o)

to_pattern_complex(S, o) ==
  List(to_pattern(S.Number, o), 2, 2,
       list_separator_at(to_pattern_list_subscript(S), o))

to_pattern_string(S) == Anything

to_pattern_pair(S, o) ==
  Map(to_pattern(S.Key, o), to_pattern(S.Value, o), 1, 1,
      list_separator_at(to_pattern_pair_list_subscript(S), o),
      map_separator_at(to_pattern_map_subscript(S), o))

to_pattern(S, o) ==
  CASE S.kind = "arithmetic" -> to_pattern_arithmetic(S)
    [] S.kind = "list"       -> to_pattern_list(S, o)
    [] S.kind = "map"        -> to_pattern_map(S, o)
    [] S.kind = "Tensor"     -> to_pattern_Tensor(S, o)
    [] S.kind = "Point"      -> to_pattern_Point(S, o)
    [] S.kind = "complex"    -> to_pattern_complex(S, o)
    [] S.kind = "string"     -> to_pattern_string(S)
    [] S.kind = "pair"       -> to_pattern_pair(S, o)

\* The table subscripts used by the outermost level of to_pattern().
separator_subscripts(S) ==
  CASE S.kind \in {"list", "Tensor", "complex"} ->
         [list |-> {to_pattern_list_subscript(S)}, map |-> {}]
    [] S.kind = "Point" ->
         [list |-> {to_pattern_list_subscript(TensorOf(1, S.dim, S.Number))},
          map |-> {}]
    [] S.kind = "map" ->
         [list |-> {to_pattern_list_subscript(S)},
          map |-> {to_pattern_map_subscript(S)}]
    [] S.kind = "pair" ->
         [list |-> {to_pattern_pair_list_subscript(S)},
          map |-> {to_pattern_map_subscript(S)}]
    [] OTHER -> [list |-> {}, map |-> {}]

\* Whether some level of to_pattern() reads past the end of a table.
reads_past_table(S) == to_pattern(S, <<"x">>) # to_pattern(S, <<"y">>)

-----------------------------------------------------------------------------
(* Reading numbers from a text: std::istringstream's operator>>.           *)

\* std::to_string prints a floating point value with six decimals.
ToStringDigits == 6

\* A double is a whole number of units of 10^-DoubleDigits.
DoubleDigits == ToStringDigits + 1

RECURSIVE Pow10(_)
Pow10(n) == IF n = 0 THEN 1 ELSE 10 * Pow10(n - 1)

DoubleOne == Pow10(DoubleDigits)

\* A magnitude no arithmetic type of the model holds.
Huge == Pow2(30)

RECURSIVE LeadingDigits(_)
LeadingDigits(s) ==
  IF s # <<>> /\ IsDigit(Head(s)) THEN 1 + LeadingDigits(Tail(s)) ELSE 0

\* The value of a run of digits, saturating at Huge.
RECURSIVE DigitsToNat(_)
DigitsToNat(ds) ==
  IF ds = <<>> THEN 0
  ELSE LET front == DigitsToNat(SubSeq(ds, 1, Len(ds) - 1))
       IN  IF front >= Pow2(26) THEN Huge
           ELSE front * 10 + DigitValue(ds[Len(ds)])

\* What follows an optional sign at the head of body.
Unsigned(body) ==
  IF body # <<>> /\ Head(body) \in {"-", "+"} THEN Tail(body) ELSE body

IsNegative(body) == body # <<>> /\ Head(body) = "-"

\* The digits that follow the optional sign, and what follows them.
Digits(body) == SubSeq(Unsigned(body), 1, LeadingDigits(Unsigned(body)))

AfterDigits(body) ==
  SubSeq(Unsigned(body), LeadingDigits(Unsigned(body)) + 1, Len(Unsigned(body)))

\* The sign and digits operator>> consumes after skipping leading whitespace.
ScanInteger(s) ==
  LET body == StripLeft(s)
  IN  [found |-> Digits(body) # <<>>,
       negative |-> IsNegative(body),
       magnitude |-> DigitsToNat(Digits(body)),
       rest |-> AfterDigits(body)]

\* The outcome of operator>> into a signed integral type with limits lo..hi,
\* given the scanned sign and digits: no digits or a value out of range sets
\* failbit.
SignedResult(sc, lo, hi) ==
  LET v == IF sc.negative THEN -sc.magnitude ELSE sc.magnitude
  IN  [fail |-> ~sc.found \/ v < lo \/ v > hi, value |-> v, rest |-> sc.rest]

ExtractSigned(s, lo, hi) == SignedResult(ScanInteger(s), lo, hi)

\* The outcome of operator>> into an unsigned type with maximum hi: a negative
\* text whose magnitude fits is negated modulo hi + 1.
UnsignedResult(sc, hi) ==
  [fail |-> ~sc.found \/ sc.magnitude > hi,
   value |-> IF sc.negative /\ sc.magnitude <= hi /\ sc.magnitude > 0
             THEN hi + 1 - sc.magnitude ELSE sc.magnitude,
   rest |-> sc.rest]

ExtractUnsigned(s, hi) == UnsignedResult(ScanInteger(s), hi)

\* The fraction operator>> consumes after the whole digits: the number m of
\* its digits, the digits a double of the model keeps, and what follows.
ScanFraction(after) ==
  IF after # <<>> /\ Head(after) = "."
  THEN LET m == LeadingDigits(Tail(after))
       IN  [m |-> m,
            kept |-> SubSeq(after, 2,
                            (IF m > DoubleDigits THEN DoubleDigits ELSE m) + 1),
            rest |-> SubSeq(after, m + 2, Len(after))]
  ELSE [m |-> 0, kept |-> <<>>, rest |-> after]

\* The magnitude of whole.kept in units of 10^-DoubleDigits; DBL_MAX if the
\* value overflows.
Magnitude(whole, kept) ==
  IF whole >= DBL_MAX \div DoubleOne THEN DBL_MAX
  ELSE whole * DoubleOne + DigitsToNat(kept) * Pow10(DoubleDigits - Len(kept))

\* The outcome of operator>> into a double, given the text body after the
\* leading whitespace and its scanned fraction f.
DoubleResult(body, f) ==
  LET mag == Magnitude(DigitsToNat(Digits(body)), f.kept)
      found == Digits(body) # <<>> \/ f.m > 0
  IN  [fail |-> ~found \/ mag = DBL_MAX,
       value |-> IF IsNegative(body) THEN -mag ELSE mag,
       rest |-> IF found THEN f.rest ELSE body]

\* operator>> into a double: sign, digits, and a fraction.  Exponents are not
\* modelled (no text of the model holds one).
ExtractDouble(s) ==
  LET body == StripLeft(s)
  IN  DoubleResult(body, ScanFraction(AfterDigits(body)))

\* A faulty variant of NarrowToChar: the int is reduced to the bits of a
\* character and never taken as negative.
NarrowToChar_without_sign(t, i) == i % Pow2(CharBits)

\* Narrowing an int to a character type (value = i).
NarrowToChar(t, i) ==
  LET m == Pow2(CharBits)
      r == i % m
  IN  IF t = "char" /\ r >= Pow2(CharBits - 1) THEN r - m ELSE r

has_only_whitespace(s) == StripLeft(s) = <<>>

-----------------------------------------------------------------------------
(* Utilities::split_string_list.                                           *)

\* A faulty variant of split_string_list: the pieces keep the spaces around
\* them.
RECURSIVE split_string_list_keeping_spaces(_, _)
split_string_list_keeping_spaces(s, delimiter) ==
  IF s = <<>> THEN <<>>
  ELSE IF Find(s, delimiter) = 0 THEN <<s>>
  ELSE <<SubSeq(s, 1, Find(s, delimiter) - 1)>>
         \o split_string_list_keeping_spaces(
              SubSeq(s, Find(s, delimiter) + Len(delimiter), Len(s)), delimiter)

RECURSIVE split_rest(_, _)
split_rest(tmp, delimiter) ==
  IF tmp = <<>> THEN <<>>
  ELSE LET at == Find(tmp, delimiter)
       IN  IF at = 0 THEN <<Trim(tmp)>>
           ELSE <<Trim(SubSeq(tmp, 1, at - 1))>>
                  \o split_rest(SubSeq(tmp, at + Len(delimiter), Len(tmp)),
                                delimiter)

\* Trailing spaces are dropped, the text is cut at every delimiter and each
\* piece is stripped of the spaces around it; an empty text has no pieces.
split_string_list(s, delimiter) == split_rest(StripRight(s), delimiter)

-----------------------------------------------------------------------------
(* PatternBase::match.                                                     *)

Options(sequence) == split_string_list(sequence, Txt1("|"))

InRange(p, v) ==
  IF p.lower_bound <= p.upper_bound
  THEN p.lower_bound <= v /\ v <= p.upper_bound
  ELSE TRUE

\* A faulty variant of Integer_match: the bounds are enforced whatever their
\* order.
Integer_match_enforcing_inverted_bounds(p, s) ==
  \E r \in {ExtractSigned(s, -Huge, Huge)} :
    /\ ~r.fail
    /\ has_only_whitespace(r.rest)
    /\ p.lower_bound <= r.value
    /\ r.value <= p.upper_bound

\* The text is read as a base-10 integer with an optional sign, of any size;
\* nothing but whitespace may follow it.
Integer_match(p, s) ==
  \E r \in {ExtractSigned(s, -Huge, Huge)} :
    ~r.fail /\ has_only_whitespace(r.rest) /\ InRange(p, r.value)

Double_match(p, s) ==
  \E r \in {ExtractDouble(s)} :
    ~r.fail /\ has_only_whitespace(r.rest) /\ InRange(p, r.value)

\* A faulty variant of Selection_match: the text is stripped of the spaces
\* around it before it is compared.
Selection_match_trimming_text(p, s) ==
  \E options \in {Options(p.sequence)} :
    \E i \in DOMAIN options : options[i] = Trim(s)

Selection_match(p, s) ==
  \E options \in {Options(p.sequence)} :
    \E i \in DOMAIN options : options[i] = s

\* A faulty variant of MultipleSelection_match: an option may be picked once.
MultipleSelection_match_without_repetitions(p, s) ==
  \E split_names \in {split_string_list(s, Txt1(","))} :
    \E options \in {Options(p.sequence)} :
      /\ \A i \in DOMAIN split_names :
           \E j \in DOMAIN options : options[j] = split_names[i]
      /\ \A i, j \in DOMAIN split_names :
           split_names[i] = split_names[j] => i = j

MultipleSelection_match(p, s) ==
  \E split_names \in {split_string_list(s, Txt1(","))} :
    \E options \in {Options(p.sequence)} :
      \A i \in DOMAIN split_names :
        \E j \in DOMAIN options : options[j] = split_names[i]

RECURSIVE match(_, _)

\* A faulty variant of List_match: the number of elements has no upper limit.
List_match_without_max_elements(p, s) ==
  \E split_list \in {split_string_list(s, p.separator)} :
    /\ Len(split_list) >= p.min_elements
    /\ \A i \in DOMAIN split_list : match(p.pattern, split_list[i])

List_match(p, s) ==
  \E split_list \in {split_string_list(s, p.separator)} :
    /\ Len(split_list) >= p.min_elements
    /\ Len(split_list) <= p.max_elements
    /\ \A i \in DOMAIN split_list : match(p.pattern, split_list[i])

\* A faulty variant of Map_match: an entry that does not split into a key and
\* a value is skipped.
Map_match_skipping_malformed_entries(p, s) ==
  \E split_list \in {split_string_list(s, p.separator)} :
    /\ Len(split_list) >= p.min_elements
    /\ Len(split_list) <= p.max_elements
    /\ \A i \in DOMAIN split_list :
         \E pair \in {split_string_list(split_list[i], p.key_value_separator)} :
           Len(pair) = 2 =>
             /\ match(p.key_pattern, pair[1])
             /\ match(p.value_pattern, pair[2])

Map_match(p, s) ==
  \E split_list \in {split_string_list(s, p.separator)} :
    /\ Len(split_list) >= p.min_elements
    /\ Len(split_list) <= p.max_elements
    /\ \A i \in DOMAIN split_list :
         \E pair \in {split_string_list(split_list[i], p.key_value_separator)} :
           /\ Len(pair) = 2
           /\ match(p.key_pattern, pair[1])
           /\ match(p.value_pattern, pair[2])

match(p, s) ==
  CASE p.variant = "Integer"           -> Integer_match(p, s)
    [] p.variant = "Double"            -> Double_match(p, s)
    [] p.variant = "Selection"         -> Selection_match(p, s)
    [] p.variant = "Bool"              -> Selection_match(p, s)
    [] p.variant = "List"              -> List_match(p, s)
    [] p.variant = "Map"               -> Map_match(p, s)
    [] p.variant = "MultipleSelection" -> MultipleSelection_match(p, s)
    [] p.variant = "Anything"          -> TRUE
    [] p.variant = "FileName"          -> TRUE
    [] p.variant = "DirectoryName"     -> TRUE

-----------------------------------------------------------------------------
(* Convert<T>::to_string and Convert<T>::to_value.  A call returns a value *)
(* (Ok), ends in an exception (Fail), or runs into undefined behaviour.    *)

Ok(v) == <<"ok", v>>

Fail(e) == <<"fail", e>>

Undefined(what) == <<"ub", what>>

IsOk(r) == r[1] = "ok"

CharTypes == {"char", "unsigned char"}

RECURSIVE PadDigits(_, _)
PadDigits(n, width) ==
  IF width = 0 THEN <<>>
  ELSE PadDigits(n \div 10, width - 1) \o <<DigitChars[(n % 10) + 1]>>

\* std::to_string on a double: "%f", six decimals, round to nearest (even).
DoubleToText(v) ==
  LET a == IF v < 0 THEN -v ELSE v
      unit == Pow10(DoubleDigits - ToStringDigits)
      lo == a \div unit
      r == a % unit
      q == IF 2 * r > unit \/ (2 * r = unit /\ lo % 2 = 1) THEN lo + 1 ELSE lo
      scale == Pow10(ToStringDigits)
  IN  (IF v < 0 THEN <<"-">> ELSE <<>>)
        \o NatToText(q \div scale) \o <<".">> \o PadDigits(q % scale, ToStringDigits)

TrueText == <<"t", "r", "u", "e">>

FalseText == <<"f", "a", "l", "s", "e">>

\* s = vec[0]; s += separator + " " + vec[i] for the following ones.
RECURSIVE join(_, _)
join(vec, separator) ==
  IF vec = <<>> THEN <<>>
  ELSE IF Len(vec) = 1 THEN vec[1]
  ELSE join(SubSeq(vec, 1, Len(vec) - 1), separator)
         \o separator \o <<" ">> \o vec[Len(vec)]

\* t.insert(t.end(), x): a sequence container appends; a set keeps its
\* elements sorted and unique.
RECURSIVE set_insert(_, _)
set_insert(t, x) ==
  IF t = <<>> THEN <<x>>
  ELSE IF x = Head(t) THEN t
  ELSE IF x < Head(t) THEN <<x>> \o t
  ELSE <<Head(t)>> \o set_insert(Tail(t), x)

\* A faulty variant of container_insert: a sequence container takes the new
\* element at its front.
container_insert_at_front(c, t, x) ==
  IF c = "set" THEN set_insert(t, x) ELSE <<x>> \o t

container_insert(c, t, x) ==
  IF c = "set" THEN set_insert(t, x) ELSE Append(t, x)

\* t.insert(std::make_pair(k, v)): an entry whose key is present is dropped.
RECURSIVE map_insert(_, _, _)
map_insert(t, k, v) ==
  IF t = <<>> THEN <<<<k, v>>>>
  ELSE IF k = Head(t)[1] THEN t
  ELSE IF k < Head(t)[1] THEN <<<<k, v>>>> \o t
  ELSE <<Head(t)>> \o map_insert(Tail(t), k, v)

RECURSIVE to_string(_, _, _)
RECURSIVE to_value(_, _, _)

to_string_arithmetic(S, v, p) ==
  LET s == IF S.type \in CharTypes THEN IntToText(v)
           ELSE IF S.type = "bool" THEN (IF v THEN TrueText ELSE FalseText)
           ELSE IF S.type \in IntegralTypes THEN IntToText(v)
           ELSE DoubleToText(v)
  IN  IF match(p, s) THEN Ok(s) ELSE Fail("ExcNoMatch")

\* is >> i for the character types (i an int), is >> value for the others.
extract(S, s) ==
  CASE S.type \in CharTypes -> ExtractSigned(s, INT_MIN, INT_MAX)
    [] S.type = "int" -> ExtractSigned(s, INT_MIN, INT_MAX)
    [] S.type = "unsigned int" -> ExtractUnsigned(s, UINT_MAX)
    [] S.type = "double" -> ExtractDouble(s)

to_value_arithmetic(S, s, p) ==
  IF ~match(p, s) THEN Fail("ExcNoMatch")
  ELSE IF S.type = "bool" THEN Ok(s = TrueText)
  ELSE IF extract(S, s).fail THEN Fail("ExcMessage")
  ELSE IF S.type \in CharTypes THEN Ok(NarrowToChar(S.type, extract(S, s).value))
  ELSE Ok(extract(S, s).value)

\* The texts of the elements of t, converted in order; the first exception
\* ends the loop.
RECURSIVE element_strings(_, _, _)
element_strings(S, t, p) ==
  IF t = <<>> THEN Ok(<<>>)
  ELSE LET first == to_string(S, Head(t), p)
       IN  IF ~IsOk(first) THEN first
           ELSE LET others == element_strings(S, Tail(t), p)
                IN  IF ~IsOk(others) THEN others
                    ELSE Ok(<<first[2]>> \o others[2])

\* A faulty variant of to_string_list: the assembled text is returned without
\* being matched against the pattern.
to_string_list_without_final_match(S, t, pattern) ==
  IF pattern.variant # "List" THEN Fail("ExcMessage")
  ELSE LET vec == element_strings(S.value_type, t, pattern.pattern)
       IN  IF ~IsOk(vec) THEN vec ELSE Ok(join(vec[2], pattern.separator))

to_string_list(S, t, pattern) ==
  IF pattern.variant # "List" THEN Fail("ExcMessage")
  ELSE LET vec == element_strings(S.value_type, t, pattern.pattern)
       IN  IF ~IsOk(vec) THEN vec
           ELSE LET s == join(vec[2], pattern.separator)
                IN  IF match(pattern, s) THEN Ok(s) ELSE Fail("ExcNoMatch")

\* A faulty variant of insert_elements: a token that does not convert ends
\* the loop and the elements converted so far are returned.
RECURSIVE insert_elements_keeping_converted(_, _, _, _)
insert_elements_keeping_converted(S, v, base_p, t) ==
  IF v = <<>> THEN Ok(t)
  ELSE LET x == to_value(S.value_type, Head(v), base_p)
       IN  IF ~IsOk(x) THEN Ok(t)
           ELSE insert_elements_keeping_converted(
                  S, Tail(v), base_p, container_insert(S.container, t, x[2]))

\* The values of the tokens v, converted in order and inserted into t.
RECURSIVE insert_elements(_, _, _, _)
insert_elements(S, v, base_p, t) ==
  IF v = <<>> THEN Ok(t)
  ELSE LET x == to_value(S.value_type, Head(v), base_p)
       IN  IF ~IsOk(x) THEN x
           ELSE insert_elements(S, Tail(v), base_p,
                                container_insert(S.container, t, x[2]))

\* A faulty variant of to_value_list: the text is split and converted without
\* being matched against the pattern first.
to_value_list_without_match(S, s, pattern) ==
  IF pattern.variant # "List" THEN Fail("ExcMessage")
  ELSE insert_elements(S, split_string_list(s, pattern.separator),
                       pattern.pattern, <<>>)

\* A faulty variant of to_value_list: under a pattern that is not a List the
\* text is split at the comma and converted with the default patterns.
to_value_list_under_any_pattern(S, s, pattern) ==
  IF ~match(pattern, s) THEN Fail("ExcNoMatch")
  ELSE IF pattern.variant # "List"
  THEN insert_elements(S, split_string_list(s, Txt1(",")),
                       to_pattern(S.value_type, <<>>), <<>>)
  ELSE insert_elements(S, split_string_list(s, pattern.separator),
                       pattern.pattern, <<>>)

to_value_list(S, s, pattern) ==
  IF ~match(pattern, s) THEN Fail("ExcNoMatch")
  ELSE IF pattern.variant # "List" THEN Fail("ExcMessage")
  ELSE insert_elements(S, split_string_list(s, pattern.separator),
                       pattern.pattern, <<>>)

\* key + key_value_separator + value for each entry of t, in order.
RECURSIVE entry_strings(_, _, _)
entry_strings(S, t, p) ==
  IF t = <<>> THEN Ok(<<>>)
  ELSE LET key == to_string(S.key_type, Head(t)[1], p.key_pattern)
       IN  IF ~IsOk(key) THEN key
           ELSE LET val == to_string(S.mapped_type, Head(t)[2], p.value_pattern)
                IN  IF ~IsOk(val) THEN val
                    ELSE LET others == entry_strings(S, Tail(t), p)
                         IN  IF ~IsOk(others) THEN others
                             ELSE Ok(<<key[2] \o p.key_value_separator \o val[2]>>
                                       \o others[2])

to_string_map(S, t, pattern) ==
  IF pattern.variant # "Map" THEN Fail("ExcMessage")
  ELSE LET vec == entry_strings(S, t, pattern)
       IN  IF ~IsOk(vec) THEN vec
           ELSE LET s == join(vec[2], pattern.separator)
                IN  IF match(pattern, s) THEN Ok(s) ELSE Fail("ExcNoMatch")

\* The pattern under which to_value converts the value token of an entry: the
\* call passes no pattern, so the default one of the mapped type is used.
mapped_value_pattern(S, p) == to_pattern(S.mapped_type, oob)

\* Each token is split at the key/value separator; the key is converted with
\* the key pattern, the value with the default pattern of the mapped type.
RECURSIVE insert_entries(_, _, _, _)
insert_entries(S, v, p, t) ==
  IF v = <<>> THEN Ok(t)
  ELSE LET key_val == split_string_list(Head(v), p.key_value_separator)
       IN  IF Len(key_val) # 2 THEN Undefined("AssertDimension(key_val.size(), 2)")
           ELSE LET key == to_value(S.key_type, key_val[1], p.key_pattern)
                IN  IF ~IsOk(key) THEN key
                    ELSE LET val == to_value(S.mapped_type, key_val[2],
                                             mapped_value_pattern(S, p))
                         IN  IF ~IsOk(val) THEN val
                             ELSE insert_entries(S, Tail(v), p,
                                                 map_insert(t, key[2], val[2]))

to_value_map(S, s, pattern) ==
  IF ~match(pattern, s) THEN Fail("ExcNoMatch")
  ELSE IF pattern.variant # "Map" THEN Fail("ExcMessage")
  ELSE insert_entries(S, split_string_list(s, pattern.separator), pattern, <<>>)

\* The value of a default-constructed Tensor component or Number.
RECURSIVE ZeroOf(_)
ZeroOf(S) ==
  CASE S.kind = "Tensor"  -> [i \in 1..S.dim |-> ZeroOf(Tensor_value_type(S))]
    [] S.kind = "complex" -> <<ZeroOf(S.Number), ZeroOf(S.Number)>>
    [] OTHER              -> 0

\* vec[i] = to_string(t[i], base_p) for i < dim.
to_string_Tensor(S, t, pattern) ==
  IF pattern.variant # "List" THEN Fail("ExcMessage")
  ELSE LET vec == element_strings(Tensor_value_type(S), t, pattern.pattern)
       IN  IF ~IsOk(vec) THEN vec
           ELSE LET s == join(vec[2], pattern.separator)
                IN  IF match(pattern, s) THEN Ok(s) ELSE Fail("ExcNoMatch")

\* t[i++] = to_value(str, base_p) for every token: the token is converted,
\* then stored; storing at i >= dim writes outside the tensor.
RECURSIVE fill_components(_, _, _, _, _)
fill_components(S, v, base_p, i, t) ==
  IF v = <<>> THEN Ok(t)
  ELSE LET x == to_value(Tensor_value_type(S), Head(v), base_p)
       IN  IF ~IsOk(x) THEN x
           ELSE IF i >= S.dim THEN Undefined("t[i++] with i >= dim")
           ELSE fill_components(S, Tail(v), base_p, i + 1,
                                [t EXCEPT ![i + 1] = x[2]])

to_value_Tensor(S, s, pattern) ==
  IF ~match(pattern, s) THEN Fail("ExcNoMatch")
  ELSE IF pattern.variant # "List" THEN Fail("ExcMessage")
  ELSE fill_components(S, split_string_list(s, pattern.separator),
                       pattern.pattern, 0, ZeroOf(S))

to_string_Point(S, t, pattern) ==
  to_string_Tensor(TensorOf(1, S.dim, S.Number), t, pattern)

to_value_Point(S, s, pattern) ==
  to_value_Tensor(TensorOf(1, S.dim, S.Number), s, pattern)

to_string_complex(S, t, pattern) ==
  IF pattern.variant # "List" THEN Fail("ExcMessage")
  ELSE LET re == to_string(S.Number, t[1], pattern.pattern)
           im == to_string(S.Number, t[2], pattern.pattern)
       IN  IF ~IsOk(re) THEN re
           ELSE IF ~IsOk(im) THEN im
           ELSE LET s == re[2] \o pattern.separator \o <<" ">> \o im[2]
                IN  IF match(pattern, s) THEN Ok(s) ELSE Fail("ExcNoMatch")

\* AssertDimension(v.size(), 2) is compiled out of optimized builds; v[0]
\* and v[1] are then read whatever the size of v.
to_value_complex(S, s, pattern) ==
  IF ~match(pattern, s) THEN Fail("ExcNoMatch")
  ELSE IF pattern.variant # "List" THEN Fail("ExcMessage")
  ELSE LET v == split_string_list(s, pattern.separator)
       IN  IF Len(v) < 2 THEN Undefined("v[1] with v.size() < 2")
           ELSE LET re == to_value(S.Number, v[1], pattern.pattern)
                    im == to_value(S.Number, v[2], pattern.pattern)
                IN  IF ~IsOk(re) THEN re
                    ELSE IF ~IsOk(im) THEN im
                    ELSE Ok(<<re[2], im[2]>>)

to_string_string(S, t, pattern) ==
  IF match(pattern, t) THEN Ok(t) ELSE Fail("ExcNoMatch")

to_value_string(S, s, pattern) ==
  IF match(pattern, s) THEN Ok(s) ELSE Fail("ExcNoMatch")

\* The pair is put into an unordered_map of one entry, which is converted.
to_string_pair(S, t, pattern) ==
  LET s == to_string_map(MapOf(S.Key, S.Value), <<t>>, pattern)
  IN  IF ~IsOk(s) THEN s
      ELSE IF match(pattern, s[2]) THEN s ELSE Fail("ExcNoMatch")

\* return *m.begin(): the first entry of the unordered_map read from s, in
\* an order the container does not specify.
to_value_pair(S, s, pattern) ==
  LET m == to_value_map(MapOf(S.Key, S.Value), s, pattern)
  IN  IF ~IsOk(m) THEN m
      ELSE IF m[2] = <<>> THEN Undefined("*m.begin() of an empty map")
      ELSE IF Len(m[2]) > 1 THEN <<"unspecified", m[2]>>
      ELSE Ok(m[2][1])

to_string(S, t, pattern) ==
  CASE S.kind = "arithmetic" -> to_string_arithmetic(S, t, pattern)
    [] S.kind = "list"       -> to_string_list(S, t, pattern)
    [] S.kind = "map"        -> to_string_map(S, t, pattern)
    [] S.kind = "Tensor"     -> to_string_Tensor(S, t, pattern)
    [] S.kind = "Point"      -> to_string_Point(S, t, pattern)
    [] S.kind = "complex"    -> to_string_complex(S, t, pattern)
    [] S.kind = "string"     -> to_string_string(S, t, pattern)
    [] S.kind = "pair"       -> to_string_pair(S, t, pattern)

to_value(S, s, pattern) ==
  CASE S.kind = "arithmetic" -> to_value_arithmetic(S, s, pattern)
    [] S.kind = "list"       -> to_value_list(S, s, pattern)
    [] S.kind = "map"        -> to_value_map(S, s, pattern)
    [] S.kind = "Tensor"     -> to_value_Tensor(S, s, pattern)
    [] S.kind = "Point"      -> to_value_Point(S, s, pattern)
    [] S.kind = "complex"    -> to_value_complex(S, s, pattern)
    [] S.kind = "string"     -> to_value_string(S, s, pattern)
    [] S.kind = "pair"       -> to_value_pair(S, s, pattern)

-----------------------------------------------------------------------------
(* SpecType: template instantiation.  A type is built by wrapping the      *)
(* current type in one more container; RankInfo<T> is computed when the    *)
(* type is instantiated, and to_pattern() may then be called on it.        *)

NoValue == <<>>

NoText == <<>>

\* What a read past the end of a separator table may yield.
OutOfRangeReads == {<<>>, Txt1(",")}

ElementaryTypes == {Arith("int"), String}

ListContainers == {"vector"}

\* The other template argument of a map or pair instantiated around T.
OtherTypes == {Arith("int")}

RECURSIVE Nesting(_)
Nesting(S) ==
  CASE S.kind = "list"    -> 1 + Nesting(S.value_type)
    [] S.kind = "map"     -> 1 + Max(Nesting(S.key_type), Nesting(S.mapped_type))
    [] S.kind = "pair"    -> 1 + Max(Nesting(S.Key), Nesting(S.Value))
    [] S.kind = "Tensor"  -> S.rank + Nesting(S.Number)
    [] S.kind = "Point"   -> 1 + Nesting(S.Number)
    [] S.kind = "complex" -> 1 + Nesting(S.Number)
    [] OTHER              -> 0

IsNumber(S) == S.kind = "arithmetic" /\ S.type # "bool"

TypeInit ==
  /\ T \in ElementaryTypes
  /\ res = RankInfo(T)
  /\ pat = NoPattern
  /\ value = NoValue
  /\ str = NoText
  /\ oob = <<>>
  /\ pc = "type"

Instantiated(S) ==
  /\ pc \in {"type", "to_pattern"}
  /\ Nesting(S) <= MaxNest
  /\ T' = S
  /\ res' = RankInfo(S)
  /\ pat' = NoPattern
  /\ oob' = <<>>
  /\ pc' = "type"
  /\ UNCHANGED <<value, str>>

InstantiateList == \E c \in ListContainers : Instantiated(ListOf(c, T))

InstantiateMap ==
  \E O \in OtherTypes : \E S \in {MapOf(O, T), MapOf(T, O)} : Instantiated(S)

InstantiatePair ==
  \E O \in OtherTypes : \E S \in {PairOf(O, T), PairOf(T, O)} : Instantiated(S)

InstantiateTensor ==
  /\ IsNumber(T) \/ T.kind = "complex"
  /\ \E r \in 1..2 : \E d \in 2..3 : Instantiated(TensorOf(r, d, T))

InstantiatePoint ==
  /\ IsNumber(T)
  /\ \E d \in 2..3 : Instantiated(PointOf(d, T))

InstantiateComplex ==
  /\ IsNumber(T)
  /\ Instantiated(ComplexOf(T))

\* A call of Convert<T>::to_pattern().  A read past the end of a table is
\* undefined: the call yields a pattern holding whatever was read, or ends
\* the program.
ToPattern ==
  /\ pc = "type"
  /\ \/ /\ \E o \in (IF reads_past_table(T) THEN OutOfRangeReads ELSE {<<>>}) :
             /\ oob' = o
             /\ pat' = to_pattern(T, o)
          /\ res' = separator_subscripts(T)
          /\ pc' = "to_pattern"
       \/ /\ reads_past_table(T)
          /\ pat' = NoPattern
          /\ pc' = "crash"
          /\ UNCHANGED <<res, oob>>
  /\ UNCHANGED <<T, value, str>>

TypeNext ==
  \/ InstantiateList
  \/ InstantiateMap
  \/ InstantiatePair
  \/ InstantiateTensor
  \/ InstantiatePoint
  \/ InstantiateComplex
  \/ ToPattern

SpecType == TypeInit /\ [][TypeNext]_vars

-----------------------------------------------------------------------------
(* Properties of rank inference and of the derived patterns (SpecType).    *)

TableSize == Len(default_list_separator)

RECURSIVE OnlyListsAndMaps(_)
OnlyListsAndMaps(S) ==
  CASE S.kind = "list" -> OnlyListsAndMaps(S.value_type)
    [] S.kind = "map"  -> OnlyListsAndMaps(S.key_type) /\ OnlyListsAndMaps(S.mapped_type)
    [] OTHER           -> S.kind \in {"arithmetic", "string"}

\* The rank the rules of the specification give to a nesting of elementary,
\* list-like and map-like shapes.
RECURSIVE StatedRank(_)
StatedRank(S) ==
  CASE S.kind = "list" ->
         LET I == StatedRank(S.value_type)
         IN  <<I[1] + 1, I[2]>>
    [] S.kind = "map" ->
         LET K == StatedRank(S.key_type)
             V == StatedRank(S.mapped_type)
         IN  <<Max(K[1], V[1]) + 1, Max(K[2], V[2]) + 1>>
    [] OTHER -> <<0, 0>>

\* C10: an elementary type has rank (0,0), a list-like container of I has
\* rank (I.list_rank + 1, I.map_rank), and a map-like container of K and V has
\* rank (max(K.list_rank, V.list_rank) + 1, max(K.map_rank, V.map_rank) + 1),
\* for every nesting of these shapes.
C10_RankInference ==
  (pc = "type" /\ OnlyListsAndMaps(T)) =>
     <<res.list_rank, res.map_rank>> = StatedRank(T)

\* A list of maps whose mapped type is a list of lists has been instantiated.
C10_Witness ==
  /\ pc = "type"
  /\ OnlyListsAndMaps(T)
  /\ T.kind = "list"
  /\ T.value_type.kind = "map"
  /\ res.list_rank = 3
  /\ res.map_rank = 1

\* The rank the rules of the specification give to every shape.
RECURSIVE ShapeRank(_)
ShapeRank(S) ==
  CASE S.kind = "list" ->
         LET I == ShapeRank(S.value_type)
         IN  <<I[1] + 1, I[2]>>
    [] S.kind = "map" ->
         LET K == ShapeRank(S.key_type)
             V == ShapeRank(S.mapped_type)
         IN  <<Max(K[1], V[1]) + 1, Max(K[2], V[2]) + 1>>
    [] S.kind = "Tensor" ->
         LET N == ShapeRank(S.Number)
         IN  <<S.rank + N[1], N[2]>>
    [] S.kind = "Point" ->
         LET N == ShapeRank(S.Number)
         IN  <<1 + N[1], N[2]>>
    [] S.kind = "complex" ->
         LET N == ShapeRank(S.Number)
         IN  <<N[1] + 1, N[2]>>
    [] S.kind = "pair" ->
         LET K == ShapeRank(S.Key)
             V == ShapeRank(S.Value)
         IN  <<Max(K[1], V[1]), Max(K[2], V[2]) + 1>>
    [] OTHER -> <<0, 0>>

\* C11: a pair<K,V> has list_rank = max(K.list_rank, V.list_rank) and
\* map_rank = max(K.map_rank, V.map_rank) + 1; a complex number over N has
\* list_rank = N.list_rank + 1 and map_rank = N.map_rank.
C11_PairAndComplexRank ==
  (pc = "type" /\ T.kind \in {"pair", "complex"}) =>
     <<res.list_rank, res.map_rank>> = ShapeRank(T)

\* A pair whose key is a list of lists and whose value is an int has been
\* instantiated: the larger list rank is the key's.
C11_Witness ==
  /\ pc = "type"
  /\ T.kind = "pair"
  /\ T.Key.kind = "list"
  /\ T.Value.kind = "arithmetic"
  /\ res.list_rank = 2
  /\ res.map_rank = 1

Classified(S) == S.kind \in {"list", "map", "Tensor", "Point", "complex", "pair"}

\* C8 as stated: every classified shape, the pair included, reads the list
\* table at list_rank - 1 and (map-like, pair) the map table at map_rank - 1.
C8_AsStated ==
  (pc = "to_pattern" /\ Classified(T)) =>
     LET r == RankInfo(T)
     IN  /\ res.list = {r.list_rank - 1}
         /\ pat.separator = list_separator_at(r.list_rank - 1, oob)
         /\ T.kind \in {"map", "pair"} =>
              /\ res.map = {r.map_rank - 1}
              /\ pat.key_value_separator = map_separator_at(r.map_rank - 1, oob)

\* C8, amended: to_pattern() reads the list table at list_rank - 1 for
\* list-like, map-like, fixed-arity and complex shapes and at list_rank for a
\* pair; map-like and pair shapes read the map table at map_rank - 1.  The
\* separators of the pattern are what these reads yield.
C8_SeparatorSubscripts ==
  (pc = "to_pattern" /\ Classified(T)) =>
     LET r == RankInfo(T)
         li == IF T.kind = "pair" THEN r.list_rank ELSE r.list_rank - 1
     IN  /\ res.list = {li}
         /\ pat.separator = list_separator_at(li, oob)
         /\ T.kind \in {"map", "pair"} =>
              /\ res.map = {r.map_rank - 1}
              /\ pat.key_value_separator = map_separator_at(r.map_rank - 1, oob)

\* to_pattern() has been called on a pair of list rank 1 and map rank 2.
C8_Witness ==
  /\ pc = "to_pattern"
  /\ T.kind = "pair"
  /\ RankInfo(T).list_rank = 1
  /\ RankInfo(T).map_rank = 2
  /\ pat.separator = Txt1(";")
  /\ pat.key_value_separator = Txt1("=")

\* The separators used anywhere in a pattern tree.
RECURSIVE Separators(_)
Separators(p) ==
  CASE p.variant = "List" -> {p.separator} \cup Separators(p.pattern)
    [] p.variant = "Map"  ->
         {p.separator, p.key_value_separator}
           \cup Separators(p.key_pattern) \cup Separators(p.value_pattern)
    [] OTHER -> {}

RECURSIVE Unambiguous(_)
Unambiguous(p) ==
  CASE p.variant = "List" ->
         /\ p.separator \notin Separators(p.pattern)
         /\ Unambiguous(p.pattern)
    [] p.variant = "Map" ->
         /\ {p.separator, p.key_value_separator}
              \cap (Separators(p.key_pattern) \cup Separators(p.value_pattern)) = {}
         /\ Unambiguous(p.key_pattern)
         /\ Unambiguous(p.value_pattern)
    [] OTHER -> TRUE

SingleEntryMap(p) ==
  p.variant = "Map" /\ p.min_elements = 1 /\ p.max_elements = 1

\* The separators used in a pattern tree, the list separators of
\* single-entry Maps left out.
RECURSIVE EntrySeparators(_)
EntrySeparators(p) ==
  CASE p.variant = "List" -> {p.separator} \cup EntrySeparators(p.pattern)
    [] p.variant = "Map"  ->
         (IF SingleEntryMap(p) THEN {} ELSE {p.separator})
           \cup {p.key_value_separator}
           \cup EntrySeparators(p.key_pattern)
           \cup EntrySeparators(p.value_pattern)
    [] OTHER -> {}

RECURSIVE UnambiguousEntries(_)
UnambiguousEntries(p) ==
  CASE p.variant = "List" ->
         /\ p.separator \notin EntrySeparators(p.pattern)
         /\ UnambiguousEntries(p.pattern)
    [] p.variant = "Map" ->
         /\ ((IF SingleEntryMap(p) THEN {} ELSE {p.separator})
               \cup {p.key_value_separator})
              \cap (EntrySeparators(p.key_pattern)
                      \cup EntrySeparators(p.value_pattern)) = {}
         /\ UnambiguousEntries(p.key_pattern)
         /\ UnambiguousEntries(p.value_pattern)
    [] OTHER -> TRUE

WithinTables(S) ==
  RankInfo(S).list_rank <= TableSize /\ RankInfo(S).map_rank <= TableSize

\* C9 as stated: the separators of every List/Map level of the derived
\* pattern differ from every separator used inside that level.
C9_AsStated ==
  (pc = "to_pattern" /\ WithinTables(T)) => Unambiguous(pat)

\* C9, amended: the same, except for the list separator of the single-entry
\* Map of a pair, which the pair shares with the level around it (or reads
\* past the table at list rank 4) and which never occurs in a text.
C9_UnambiguousSeparators ==
  (pc = "to_pattern" /\ WithinTables(T)) => UnambiguousEntries(pat)

\* to_pattern() has been called on a list of pairs of an int and a list:
\* three levels, the list and the pair sharing ";".
C9_Witness ==
  /\ pc = "to_pattern"
  /\ WithinTables(T)
  /\ pat.variant = "List"
  /\ pat.separator = Txt1(";")
  /\ SingleEntryMap(pat.pattern)
  /\ pat.pattern.separator = Txt1(";")
  /\ pat.pattern.value_pattern.variant = "List"

-----------------------------------------------------------------------------
(* SpecConv: conversion calls.  A type, a pattern (the default one of the  *)
(* type or one the caller supplies) and either a value or a text are       *)
(* chosen; to_string is called on the value, to_value on the text, and     *)
(* to_value again on a text to_string returned.                            *)

\* Longest text built from TextAlphabet.
MaxTextLen == 3

TextAlphabet == {"1", "a", ",", ":", " "}

TextSamples ==
  { <<"1", ",", " ", "2", " ", ";", " ", "3">>,
    <<"1", ":", "2", ",", " ", "3", ":", "1">>,
    <<"1", ":", "1", ",", "1">>,
    <<"1", "2", "3", " ", "a", "b", "c">>,
    <<"t", "r", "u", "e">>,
    <<"1", ".", "5">>,
    <<"1", ".", "5", ",", "2", ",", "3">>,
    <<"-", "1">>,
    <<"3", "0", "0">>,
    <<"9", "9", "9", "9", "9">>,
    <<"1", ";", "a">>,
    <<"1", ":", "a">> }

Seqs(E, n) == UNION {[1..k -> E] : k \in 0..n}

Texts == Seqs(TextAlphabet, MaxTextLen) \cup TextSamples

IntSamples == {INT_MIN, -7, 0, 1, 2, 3, 12, INT_MAX}

UnsignedSamples == {0, 7, INT_MAX, INT_MAX + 1, UINT_MAX}

\* 0, 1.5, 0.1234567, -0.5 and 0.0000001.
DoubleSamples ==
  {0, DoubleOne + DoubleOne \div 2, 1234567, -(DoubleOne \div 2), 1}

StringSamples ==
  {<<>>, <<"a">>, <<"1">>, <<" ", "a">>, <<"a", ",", "b">>}

ArithmeticValues(t, depth) ==
  CASE t = "bool" -> BOOLEAN
    [] t = "int" ->
         IF depth = 0 THEN IntSamples ELSE IF depth = 1 THEN {1, 2, 3} ELSE {1, 2}
    [] t = "unsigned int" -> IF depth = 0 THEN UnsignedSamples ELSE {1, 2}
    [] t \in {"char", "unsigned char"} ->
         IF depth = 0 THEN numeric_limits_min(t)..numeric_limits_max(t)
         ELSE {65}
    [] t = "double" ->
         IF depth = 0 THEN DoubleSamples
         ELSE {0, DoubleOne + DoubleOne \div 2, -(DoubleOne \div 2)}

IsStrictlyIncreasing(s) == \A i \in 1..(Len(s) - 1) : s[i] < s[i + 1]

KeysIncrease(m) == \A i \in 1..(Len(m) - 1) : m[i][1] < m[i + 1][1]

\* The values of type S chosen as arguments; depth is the number of
\* containers around S.
RECURSIVE Values(_, _)
Values(S, depth) ==
  CASE S.kind = "arithmetic" -> ArithmeticValues(S.type, depth)
    [] S.kind = "string" ->
         IF depth = 0 THEN StringSamples ELSE {<<>>, <<"a">>, <<"1">>}
    [] S.kind = "list" ->
         LET all == Seqs(Values(S.value_type, depth + 1), MaxLen)
         IN  IF S.container = "set" THEN {t \in all : IsStrictlyIncreasing(t)}
             ELSE all
    [] S.kind = "map" ->
         {t \in Seqs(Values(S.key_type, depth + 1)
                       \X Values(S.mapped_type, depth + 1), MaxLen) :
            KeysIncrease(t)}
    [] S.kind = "Tensor" ->
         [1..S.dim -> Values(Tensor_value_type(S), depth + 1)]
    [] S.kind = "Point" -> [1..S.dim -> Values(S.Number, depth + 1)]
    [] S.kind = "complex" ->
         Values(S.Number, depth + 1) \X Values(S.Number, depth + 1)
    [] S.kind = "pair" ->
         Values(S.Key, depth + 1) \X Values(S.Value, depth + 1)

VectorOf(V) == ListOf("vector", V)

SampleValues(S) ==
  IF S = VectorOf(VectorOf(Arith("int"))) THEN {<<<<1, 2>>, <<3>>>>} ELSE {}

ConvTypes ==
  { Arith("bool"), Arith("int"), Arith("unsigned int"), Arith("char"),
    Arith("unsigned char"), Arith("double"), String,
    VectorOf(Arith("int")), VectorOf(String), VectorOf(Arith("double")),
    ListOf("set", Arith("int")),
    ListOf("deque", Arith("int")), ListOf("list", String),
    VectorOf(VectorOf(Arith("int"))),
    MapOf(Arith("int"), Arith("int")),
    MapOf(Arith("int"), String),
    MapOf(Arith("int"), VectorOf(Arith("int"))),
    TensorOf(1, 2, Arith("double")), TensorOf(1, 3, Arith("int")),
    TensorOf(2, 2, Arith("int")), PointOf(2, Arith("double")),
    ComplexOf(Arith("double")),
    PairOf(Arith("int"), Arith("int")),
    PairOf(Arith("int"), VectorOf(Arith("int"))),
    VectorOf(PairOf(Arith("int"), Arith("int"))) }

\* The type of the elements of a shape converted through a List pattern.
ElementType(S) ==
  CASE S.kind = "list"   -> S.value_type
    [] S.kind = "Tensor" -> Tensor_value_type(S)
    [] OTHER             -> S.Number

\* Patterns a caller passes in place of the default one.
SuppliedPatterns(S) ==
  CASE S.kind = "arithmetic" ->
         {Anything, Integer(1, 3), Double(-DoubleOne, DoubleOne)}
    [] S.kind = "string" ->
         {Integer(1, 3), Selection(<<"a", " ", "|", "1">>)}
    [] S.kind \in {"list", "Tensor", "Point", "complex"} ->
         {Anything,
          List(Anything, 0, UINT_MAX, Txt1(",")),
          List(to_pattern(ElementType(S), <<>>), 0, 1, Txt1(";"))}
    [] S.kind = "map" ->
         {Anything,
          Map(Integer(1, 3), Anything, 0, UINT_MAX, Txt1(","), Txt1(":")),
          Map(to_pattern(S.key_type, <<>>), to_pattern(S.mapped_type, <<>>),
              0, 1, Txt1(";"), Txt1("="))}
           \cup (IF S.mapped_type.kind = "list"
                 THEN {Map(to_pattern(S.key_type, <<>>),
                           List(to_pattern(S.mapped_type.value_type, <<>>),
                                0, UINT_MAX, Txt1("|")),
                           0, UINT_MAX, Txt1(";"), Txt1(":"))}
                 ELSE {})
    [] S.kind = "pair" ->
         {Anything,
          Map(Integer(1, 3), Anything, 0, UINT_MAX, Txt1(","), Txt1(":")),
          Map(to_pattern(S.Key, <<>>), to_pattern(S.Value, <<>>),
              0, 1, Txt1(";"), Txt1("="))}

NoResult == <<"none">>

\* What a call leaves: its result, one of the entries an unordered container
\* may put first, or one of the outcomes of undefined behaviour (the program
\* ends, or goes on with a value nothing determines).
Outcomes(r) ==
  CASE r[1] = "ub"          -> {<<"crash", r[2]>>, <<"garbage", r[2]>>}
    [] r[1] = "unspecified" -> {Ok(r[2][i]) : i \in DOMAIN r[2]}
    [] OTHER                -> {r}

ConvInit ==
  /\ T \in ConvTypes
  /\ oob = <<>>
  /\ pat \in {to_pattern(T, oob)} \cup SuppliedPatterns(T)
  /\ res = NoResult
  /\ \/ /\ pc = "value"
        /\ value \in Values(T, 0) \cup SampleValues(T)
        /\ str = NoText
     \/ /\ pc = "text"
        /\ value = NoValue
        /\ str \in Texts

\* s = Convert<T>::to_string(value, pat).
ConvertToString ==
  /\ pc = "value"
  /\ LET r == to_string(T, value, pat)
     IN  /\ res' \in Outcomes(r)
         /\ str' = IF IsOk(r) THEN r[2] ELSE NoText
  /\ pc' = "to_string"
  /\ UNCHANGED <<T, value, pat, oob>>

\* Convert<T>::to_value(str, pat) on a text of the caller.
ConvertToValue ==
  /\ pc = "text"
  /\ res' \in Outcomes(to_value(T, str, pat))
  /\ pc' = "to_value"
  /\ UNCHANGED <<T, value, pat, str, oob>>

\* Convert<T>::to_value(s, pat) on the text s that to_string returned.
RoundTrip ==
  /\ pc = "to_string"
  /\ IsOk(res)
  /\ res' \in Outcomes(to_value(T, str, pat))
  /\ pc' = "round_trip"
  /\ UNCHANGED <<T, value, pat, str, oob>>

ConvNext ==
  \/ ConvertToString
  \/ ConvertToValue
  \/ RoundTrip

SpecConv == ConvInit /\ [][ConvNext]_vars

-----------------------------------------------------------------------------
(* Properties of the conversions (SpecConv).                               *)

DefaultPattern == pat = to_pattern(T, oob)

\* C1 as stated: for every supported shape and every value v of that shape,
\* with p = to_pattern(), to_string(v, p) returns a text and
\* to_value(to_string(v, p), p) equals v.
C1_RoundTrip ==
  DefaultPattern =>
    /\ pc = "to_string" => IsOk(res)
    /\ pc = "round_trip" => (IsOk(res) /\ res[2] = value)

\* C4: for every shape, to_value(text, pattern) checks pattern.match(text)
\* before any splitting or inner conversion: whenever the match is false the
\* call ends in the failure raised by that check and returns no value.
C4_MatchFirst ==
  (pc \in {"to_value", "round_trip"} /\ ~match(pat, str)) =>
     (res[1] = "fail" /\ res[2] = "ExcNoMatch")

\* to_value was called on a map with a Map pattern the text does not match.
C4_Witness ==
  /\ pc = "to_value"
  /\ T.kind = "map"
  /\ pat.variant = "Map"
  /\ str # <<>>
  /\ ~match(pat, str)
  /\ res = Fail("ExcNoMatch")

\* C5: for every shape, value and supplied pattern p, to_string(v, p) either
\* returns a text that p matches or ends in a failure.
C5_ToStringMatches ==
  pc = "to_string" =>
     \/ IsOk(res) /\ res[2] = str /\ match(pat, str)
     \/ res[1] = "fail"

\* to_string was called on a list of two elements with a List pattern of at
\* most one element: the elements convert, the assembled text is rejected.
C5_Witness ==
  /\ pc = "to_string"
  /\ T.kind = "list"
  /\ pat.variant = "List"
  /\ pat.max_elements = 1
  /\ Len(value) = 2
  /\ IsOk(element_strings(T.value_type, value, pat.pattern))
  /\ res = Fail("ExcNoMatch")

\* Whether the conversion of some element, key or value token of s fails.
TokenFails(S, s, p) ==
  LET v == split_string_list(s, p.separator)
  IN  IF S.kind = "list"
      THEN \E i \in DOMAIN v :
             to_value(S.value_type, v[i], p.pattern)[1] = "fail"
      ELSE \E i \in DOMAIN v :
             LET key_val == split_string_list(v[i], p.key_value_separator)
             IN  /\ Len(key_val) = 2
                 /\ \/ to_value(S.key_type, key_val[1], p.key_pattern)[1] = "fail"
                    \/ to_value(S.mapped_type, key_val[2],
                                mapped_value_pattern(S, p))[1] = "fail"

ContainerCall ==
  \/ T.kind = "list" /\ pat.variant = "List"
  \/ T.kind = "map" /\ pat.variant = "Map"

\* C6: to_value on a container returns no partial result: if the conversion
\* of any single element, key or value token fails, the call fails.
C6_NoPartialResult ==
  (pc = "to_value" /\ ContainerCall /\ TokenFails(T, str, pat)) =>
     res[1] = "fail"

\* to_value was called on a list of integers whose text matches the pattern
\* supplied, whose first token converts and whose second does not.
C6_Witness ==
  /\ pc = "to_value"
  /\ T = VectorOf(Arith("int"))
  /\ pat.variant = "List"
  /\ match(pat, str)
  /\ LET v == split_string_list(str, pat.separator)
     IN  /\ Len(v) = 2
         /\ IsOk(to_value(T.value_type, v[1], pat.pattern))
         /\ ~IsOk(to_value(T.value_type, v[2], pat.pattern))
  /\ res[1] = "fail"

RECURSIVE WithoutSpaces(_)
WithoutSpaces(s) ==
  IF s = <<>> THEN <<>>
  ELSE IF Head(s) = " " THEN WithoutSpaces(Tail(s))
  ELSE <<Head(s)>> \o WithoutSpaces(Tail(s))

ListOfLists == VectorOf(VectorOf(Arith("int")))

OneTwoThree == <<"1", ",", " ", "2", " ", ";", " ", "3">>

\* C7: with the default pattern of a list of lists of integers, the outer
\* separator is ';' and the inner one ',': to_string([[1,2],[3]]) is
\* "1, 2 ; 3" up to spaces, and to_value("1, 2 ; 3") is [[1,2],[3]].
C7_ListOfLists ==
  (T = ListOfLists /\ DefaultPattern) =>
     /\ pat.separator = Txt1(";")
     /\ pat.pattern.separator = Txt1(",")
     /\ (pc = "to_string" /\ value = <<<<1, 2>>, <<3>>>>) =>
          (IsOk(res) /\ WithoutSpaces(res[2]) = WithoutSpaces(OneTwoThree))
     /\ (pc = "to_value" /\ str = OneTwoThree) => res = Ok(<<<<1, 2>>, <<3>>>>)

\* to_string has returned "1, 2; 3" for [[1,2],[3]], and to_value has read
\* the value back from it.
C7_Witness ==
  /\ T = ListOfLists
  /\ DefaultPattern
  /\ pc = "round_trip"
  /\ value = <<<<1, 2>>, <<3>>>>
  /\ str = <<"1", ",", " ", "2", ";", " ", "3">>
  /\ res = Ok(value)


-----------------------------------------------------------------------------
(* SpecMatch: a pattern is constructed and match() is called on a text.    *)

\* Texts of the examples of the pattern variants' documentation.
MatchSamples ==
  { <<"3">>, <<"6">>, <<"+", "3">>, <<"-", "3">>, <<"-", " ", "3">>, <<"3", "a">>,
    <<"1", ",", "2">>, <<"1", ",", "2", ",", "3">>, <<"1", ",", " ", "2">>,
    <<"1", ":", "2", ",", "3">>, <<"1", ":", "2", ",", "3", ":", "4">>,
    <<"1", ":", "2", ":", "3">>,
    <<"e", "p", "s">>, <<"g", "m", "v", ",", " ", "e", "p", "s">>,
    <<"e", "p", "s", ",", "e", "p", "s">>, <<"e", "p", "s", ",", "x", "y", "z">>,
    <<"e", "p", "s", " ">>, <<"E", "p", "s">>,
    <<"t", "r", "u", "e">>, <<"f", "a", "l", "s", "e">>, <<"T", "r", "u", "e">>,
    <<"t", "r", "u", "e", " ">>, <<"a", "a">> }

MatchTexts == Texts \cup MatchSamples

IntegerArguments ==
  {<<2, 5>>, <<5, 2>>, <<1, 1>>, <<-3, 0>>, <<INT_MIN, INT_MAX>>}

\* "ucd|gmv|eps" and "a | 1 |aa".
SelectionArguments ==
  { <<"u", "c", "d", "|", "g", "m", "v", "|", "e", "p", "s">>,
    <<"a", " ", "|", " ", "1", " ", "|", "a", "a">> }

BasePatterns == {Integer(INT_MIN, INT_MAX), Integer(2, 5), Anything}

ElementCounts == (0..MaxLen) \cup {UINT_MAX}

MatchInit ==
  /\ T = String
  /\ value = NoValue
  /\ pat = NoPattern
  /\ str = NoText
  /\ res = NoResult
  /\ oob = <<>>
  /\ pc = "start"

Constructed(p) ==
  /\ pc = "start"
  /\ pat' = p
  /\ pc' = "pattern"
  /\ UNCHANGED <<T, value, str, res, oob>>

ConstructInteger == \E a \in IntegerArguments : Constructed(Integer(a[1], a[2]))

ConstructSelection == \E seq \in SelectionArguments : Constructed(Selection(seq))

ConstructMultipleSelection ==
  \E seq \in SelectionArguments : Constructed(MultipleSelection(seq))

ConstructBool == Constructed(Bool)

ConstructList ==
  \E base \in BasePatterns, min \in 0..MaxLen, max \in ElementCounts,
     sep \in {Txt1(","), Txt1(";")} :
    Constructed(List(base, min, max, sep))

ConstructMap ==
  \E val \in BasePatterns, min \in 0..1, max \in ElementCounts,
     seps \in {<<Txt1(","), Txt1(":")>>, <<Txt1(";"), Txt1(",")>>} :
    Constructed(Map(Integer(INT_MIN, INT_MAX), val, min, max, seps[1], seps[2]))

\* A call of pat.match(s).
Match ==
  /\ pc = "pattern"
  /\ \E s \in MatchTexts :
       /\ str' = s
       /\ res' = match(pat, s)
  /\ pc' = "match"
  /\ UNCHANGED <<T, value, pat, oob>>

MatchNext ==
  \/ ConstructInteger
  \/ ConstructSelection
  \/ ConstructMultipleSelection
  \/ ConstructBool
  \/ ConstructList
  \/ ConstructMap
  \/ Match

SpecMatch == MatchInit /\ [][MatchNext]_vars

-----------------------------------------------------------------------------
(* Properties of match() (SpecMatch).                                      *)

\* The digits of a text written as an optional sign followed by digits, the
\* spaces around the text left out.
SignedDigits(s) ==
  IF Trim(s) # <<>> /\ Head(Trim(s)) \in {"-", "+"} THEN Tail(Trim(s)) ELSE Trim(s)

IsIntegerText(s) ==
  /\ SignedDigits(s) # <<>>
  /\ \A i \in DOMAIN SignedDigits(s) : IsDigit(SignedDigits(s)[i])

RECURSIVE DecimalValue(_)
DecimalValue(d) ==
  IF d = <<>> THEN 0
  ELSE DigitValue(Head(d)) * Pow10(Len(d) - 1) + DecimalValue(Tail(d))

IntegerTextValue(s) ==
  IF Head(Trim(s)) = "-" THEN -DecimalValue(SignedDigits(s))
  ELSE DecimalValue(SignedDigits(s))

\* C12: Integer(lower, upper).match(text) is true iff text is a base-10
\* integer with nothing but spaces around it and either lower <= value <=
\* upper or upper < lower; Integer(5,2) matches every integer text, and
\* Integer(2,5) accepts "3" and rejects "6".
C12_IntegerMatch ==
  (pc = "match" /\ pat.variant = "Integer") =>
     /\ res = (/\ IsIntegerText(str)
               /\ \/ pat.upper_bound < pat.lower_bound
                  \/ /\ pat.lower_bound <= IntegerTextValue(str)
                     /\ IntegerTextValue(str) <= pat.upper_bound)
     /\ (pat = Integer(5, 2) /\ IsIntegerText(str)) => res
     /\ (pat = Integer(2, 5) /\ str = <<"3">>) => res
     /\ (pat = Integer(2, 5) /\ str = <<"6">>) => ~res

\* Integer(5,2).match("99999") has returned true.
C12_Witness ==
  /\ pc = "match"
  /\ pat = Integer(5, 2)
  /\ str = <<"9", "9", "9", "9", "9">>
  /\ res = TRUE

\* The pattern of the examples: Integer() with its default bounds.
AnyInteger == Integer(INT_MIN, INT_MAX)

\* C13: List(base, min, max, separator).match(text) is true iff splitting
\* text on separator yields n elements with min <= n <= max and every trimmed
\* element matches base; an empty text has zero elements and matches when
\* min = 0.  List(Integer(),2,2,",") accepts "1,2" and rejects "1,2,3" and
\* "1".
C13_ListMatch ==
  (pc = "match" /\ pat.variant = "List") =>
     /\ res = (/\ pat.min_elements <= Len(split_string_list(str, pat.separator))
               /\ Len(split_string_list(str, pat.separator)) <= pat.max_elements
               /\ \A i \in DOMAIN split_string_list(str, pat.separator) :
                    match(pat.pattern,
                          Trim(split_string_list(str, pat.separator)[i])))
     /\ str = <<>> => res = (pat.min_elements = 0)
     /\ pat = List(AnyInteger, 2, 2, Txt1(",")) =>
          /\ str = <<"1", ",", "2">> => res
          /\ str = <<"1", ",", "2", ",", "3">> => ~res
          /\ str = <<"1">> => ~res

\* List(Integer(),2,2,",").match("1,2,3") has returned false.
C13_Witness ==
  /\ pc = "match"
  /\ pat = List(AnyInteger, 2, 2, Txt1(","))
  /\ str = <<"1", ",", "2", ",", "3">>
  /\ res = FALSE

\* C14: Map(...).match(text) is false whenever an entry obtained by splitting
\* on separator does not split on the key/value separator into exactly two
\* parts; Map(Integer(),Integer()).match("1:2,3") is false.
C14_MapEntriesHaveTwoParts ==
  (pc = "match" /\ pat.variant = "Map") =>
     /\ (\E i \in DOMAIN split_string_list(str, pat.separator) :
           Len(split_string_list(split_string_list(str, pat.separator)[i],
                                 pat.key_value_separator)) # 2) => ~res
     /\ (/\ pat = Map(AnyInteger, AnyInteger, 0, UINT_MAX, Txt1(","), Txt1(":"))
         /\ str = <<"1", ":", "2", ",", "3">>) => ~res

\* Map(Integer(),Integer()).match("1:2,3") has returned false.
C14_Witness ==
  /\ pc = "match"
  /\ pat = Map(AnyInteger, AnyInteger, 0, UINT_MAX, Txt1(","), Txt1(":"))
  /\ str = <<"1", ":", "2", ",", "3">>
  /\ res = FALSE

\* The options of the sequences the patterns are constructed from.
UcdGmvEps ==
  {<<"u", "c", "d">>, <<"g", "m", "v">>, <<"e", "p", "s">>}

OptionsGiven(seq) ==
  IF seq = <<"u", "c", "d", "|", "g", "m", "v", "|", "e", "p", "s">>
  THEN UcdGmvEps
  ELSE {<<"a">>, <<"1">>, <<"a", "a">>}

\* C15: MultipleSelection(options).match(text) is true iff text is a
\* comma-separated list, spaces around the commas ignored, possibly empty,
\* repetitions allowed, in which every pick is one of the options; for
\* "ucd|gmv|eps" it accepts "", "eps", "gmv, eps", "eps,eps" and rejects
\* "eps,xyz".
C15_MultipleSelectionMatch ==
  (pc = "match" /\ pat.variant = "MultipleSelection") =>
     \A seq \in SelectionArguments :
       pat = MultipleSelection(seq) =>
         /\ res = (\A i \in DOMAIN split_string_list(str, Txt1(",")) :
                     split_string_list(str, Txt1(","))[i] \in OptionsGiven(seq))
         /\ OptionsGiven(seq) = UcdGmvEps =>
              /\ str \in { <<>>, <<"e", "p", "s">>,
                           <<"g", "m", "v", ",", " ", "e", "p", "s">>,
                           <<"e", "p", "s", ",", "e", "p", "s">> } => res
              /\ str = <<"e", "p", "s", ",", "x", "y", "z">> => ~res

\* MultipleSelection("ucd|gmv|eps").match("eps,eps") has returned true.
C15_Witness ==
  /\ pc = "match"
  /\ pat.variant = "MultipleSelection"
  /\ OptionsGiven(pat.sequence) = UcdGmvEps
  /\ str = <<"e", "p", "s", ",", "e", "p", "s">>
  /\ res = TRUE

\* C16: Selection(options).match(text) is true iff text equals one option
\* exactly, the options being the entries between the pipe signs with the
\* spaces around the pipe signs removed at construction; the text is neither
\* trimmed nor case-folded.  Bool accepts exactly "true" and "false".
C16_SelectionMatch ==
  /\ (pc = "match" /\ pat.variant = "Selection") =>
       \A seq \in SelectionArguments :
         pat = Selection(seq) => res = (str \in OptionsGiven(seq))
  /\ (pc = "match" /\ pat.variant = "Bool") =>
       res = (str \in {TrueText, FalseText})

\* Selection("a | 1 |aa").match(" a") has returned false.
C16_Witness ==
  /\ pc = "match"
  /\ pat = Selection(<<"a", " ", "|", " ", "1", " ", "|", "a", "a">>)
  /\ str = <<" ", "a">>
  /\ res = FALSE


-----------------------------------------------------------------------------
(* pattern_factory: a pattern is recreated from a description.  What a      *)
(* variant's create() reads after its tag is not modelled: a recreated      *)
(* pattern is known by its variant alone.                                   *)

\* The variants in the order pattern_factory tries them.
Variants ==
  <<"Integer", "Double", "Selection", "List", "Map", "MultipleSelection",
    "Bool", "Anything", "FileName", "DirectoryName">>

\* Each variant's description_init: the bracketed name its descriptions begin
\* with.
description_init(variant) ==
  CASE variant = "Integer" ->
         <<"[", "I", "n", "t", "e", "g", "e", "r">>
    [] variant = "Double" ->
         <<"[", "D", "o", "u", "b", "l", "e">>
    [] variant = "Selection" ->
         <<"[", "S", "e", "l", "e", "c", "t", "i", "o", "n">>
    [] variant = "List" ->
         <<"[", "L", "i", "s", "t">>
    [] variant = "Map" ->
         <<"[", "M", "a", "p">>
    [] variant = "MultipleSelection" ->
         <<"[", "M", "u", "l", "t", "i", "p", "l", "e", "S", "e", "l", "e", "c", "t", "i", "o", "n">>
    [] variant = "Bool" ->
         <<"[", "B", "o", "o", "l", "]">>
    [] variant = "Anything" ->
         <<"[", "A", "n", "y", "t", "h", "i", "n", "g", "]">>
    [] variant = "FileName" ->
         <<"[", "F", "i", "l", "e", "N", "a", "m", "e">>
    [] variant = "DirectoryName" ->
         <<"[", "D", "i", "r", "e", "c", "t", "o", "r", "y", "N", "a", "m", "e", "]">>

StartsWith(s, prefix) ==
  Len(s) >= Len(prefix) /\ SubSeq(s, 1, Len(prefix)) = prefix

\* T::create(description): a new object if the start of the description
\* matches description_init, nullptr (NoPattern) otherwise.
create(variant, description) ==
  IF StartsWith(description, description_init(variant))
  THEN [variant |-> variant] ELSE NoPattern

RECURSIVE first_created(_, _)
first_created(variants, description) ==
  IF variants = <<>> THEN NoPattern
  ELSE IF create(Head(variants), description) # NoPattern
  THEN create(Head(variants), description)
  ELSE first_created(Tail(variants), description)

\* A faulty variant of pattern_factory: a description no variant recognises
\* yields an Anything pattern.
pattern_factory_guessing_Anything(description) ==
  IF first_created(Variants, description) # NoPattern
  THEN first_created(Variants, description) ELSE [variant |-> "Anything"]

\* The object of the first variant whose create() recognises the description,
\* nullptr if there is none.
pattern_factory(description) == first_created(Variants, description)

-----------------------------------------------------------------------------
(* SpecFactory: pattern_factory is called on a description.                *)

\* What may follow the start of a description.
DescriptionEnds ==
  {<<>>, <<"]">>, <<" ", "r", "a", "n", "g", "e", " ", "1", ".", ".", ".",
    "5", "]">>, <<" ", "o", "f", " ", "<", "[", "I", "n", "t", "e", "g", "e",
    "r", "]", ">", "]">>}

\* Starts no description_init matches: a description_init cut short, without
\* its bracket, after a space, and in lower case.
UnknownStarts ==
  UNION {{SubSeq(description_init(Variants[i]), 1, n) :
            n \in 0..(Len(description_init(Variants[i])) - 1)} :
         i \in DOMAIN Variants}
    \cup {Tail(description_init(Variants[i])) : i \in DOMAIN Variants}
    \cup {<<" ">> \o description_init(Variants[i]) : i \in DOMAIN Variants}
    \cup {<<"[", "F", "o", "o", "]">>, <<"[", "i", "n", "t", "e", "g", "e", "r">>,
          <<"[", "l", "i", "s", "t">>, <<"<", "[", "L", "i", "s", "t">>}

Descriptions ==
  {start \o end :
     start \in {description_init(Variants[i]) : i \in DOMAIN Variants}
                 \cup UnknownStarts,
     end \in DescriptionEnds}

FactoryInit ==
  /\ T = String
  /\ value = NoValue
  /\ pat = NoPattern
  /\ str \in Descriptions
  /\ res = NoResult
  /\ oob = <<>>
  /\ pc = "description"

Factory ==
  /\ pc = "description"
  /\ pat' = pattern_factory(str)
  /\ pc' = "pattern_factory"
  /\ UNCHANGED <<T, value, str, res, oob>>

FactoryNext == Factory

SpecFactory == FactoryInit /\ [][FactoryNext]_vars

\* C17: pattern_factory(description) returns no pattern for every description
\* whose start matches none of the variants' tags, and a pattern it returns is
\* of a variant whose tag the description starts with.
C17_UnknownTagYieldsNull ==
  pc = "pattern_factory" =>
     /\ (\A i \in DOMAIN Variants :
           ~StartsWith(str, description_init(Variants[i]))) => pat = NoPattern
     /\ pat # NoPattern => StartsWith(str, description_init(pat.variant))

\* pattern_factory("[Foo]") has returned no pattern.
C17_Witness ==
  /\ pc = "pattern_factory"
  /\ str = <<"[", "F", "o", "o", "]">>
  /\ pat = NoPattern


-----------------------------------------------------------------------------
(* Properties of the arithmetic conversions (SpecConv).                     *)

\* to_value is called on a text its pattern accepts, for an arithmetic type
\* read by operator>>.
NumberRead ==
  /\ pc = "to_value"
  /\ T.kind = "arithmetic"
  /\ T.type # "bool"
  /\ match(pat, str)

\* C18 as stated: to_value for an arithmetic shape raises a conversion
\* failure whenever the numeric parse of the text leaves characters
\* unconsumed, for every supplied pattern that accepts the text.
C18_LeftoverFails ==
  (NumberRead /\ extract(T, str).rest # <<>>) => res = Fail("ExcMessage")

\* The number a text starts with, as written: a sign and digits.
WrittenInteger(s) ==
  IF ScanInteger(s).negative THEN -ScanInteger(s).magnitude
  ELSE ScanInteger(s).magnitude

\* The text starts with an integer outside the range of the type t.
Overflows(t, s) ==
  /\ ScanInteger(s).found
  /\ \/ WrittenInteger(s) < numeric_limits_min(t)
     \/ WrittenInteger(s) > numeric_limits_max(t)

\* C19 as stated: to_value for an arithmetic shape raises a conversion
\* failure, and returns no wrapped or truncated value, whenever the text
\* passes the supplied pattern and its numeric value is outside the range of
\* the target type, the character types included.
C19_OverflowFails ==
  (NumberRead /\ T.type \in IntegralTypes /\ Overflows(T.type, str)) =>
     res = Fail("ExcMessage")

\* C20: for char and unsigned char and every value c of the type, with the
\* default pattern, to_string(c) is c written in decimal (a sign for a
\* negative c, then digits), and to_value of that text is c.
C20_CharCodePoint ==
  (T.kind = "arithmetic" /\ T.type \in CharTypes /\ DefaultPattern) =>
     /\ pc = "to_string" =>
          /\ IsOk(res)
          /\ IsIntegerText(res[2])
          /\ IntegerTextValue(res[2]) = value
          /\ (Head(res[2]) = "-") = (value < 0)
     /\ pc = "round_trip" => res = Ok(value)

\* The char -128 has been written as "-128" and read back as -128.
C20_Witness ==
  /\ pc = "round_trip"
  /\ T = Arith("char")
  /\ DefaultPattern
  /\ value = numeric_limits_min("char")
  /\ str = <<"-", "1", "2", "8">>
  /\ res = Ok(value)


-----------------------------------------------------------------------------
(* Properties of the container conversions (SpecConv).                      *)

\* The texts to_string gives for the elements of t under pattern p.
ElementTexts(S, t, p) == [i \in DOMAIN t |-> to_string(S, t[i], p)[2]]

\* The texts of the entries of a map as the claim writes them: the key, the
\* key/value separator, one space, the value.
SpacedEntryTexts(S, t, p) ==
  [i \in DOMAIN t |->
     to_string(S.key_type, t[i][1], p.key_pattern)[2]
       \o p.key_value_separator \o <<" ">>
       \o to_string(S.mapped_type, t[i][2], p.value_pattern)[2]]

\* The texts joined by the separator followed by one space.
RECURSIVE SeparatedBySpace(_, _)
SeparatedBySpace(texts, separator) ==
  IF texts = <<>> THEN <<>>
  ELSE IF Len(texts) = 1 THEN Head(texts)
  ELSE Head(texts) \o separator \o <<" ">>
         \o SeparatedBySpace(Tail(texts), separator)

\* The list half of C21: the elements of a list-like value are joined by the
\* pattern's separator followed by one space.
ListRendering ==
  (pc = "to_string" /\ IsOk(res) /\ T.kind = "list") =>
     str = SeparatedBySpace(ElementTexts(T.value_type, value, pat.pattern),
                            pat.separator)

\* C21 as stated: to_string joins the rendered elements of a list-like value,
\* and the rendered entries of a map-like value, with the pattern's separator
\* followed by exactly one space, and renders each map entry as the key text,
\* the key/value separator, one space, and the value text.
C21_Rendering ==
  /\ ListRendering
  /\ (pc = "to_string" /\ IsOk(res) /\ T.kind = "map") =>
        str = SeparatedBySpace(SpacedEntryTexts(T, value, pat), pat.separator)

\* The number of tokens the text splits into at the pattern's separator.
TokenCount == Len(split_string_list(str, pat.separator))

\* The number of components of a fixed-arity shape, 1 for a pair.
Arity(S) ==
  CASE S.kind \in {"Tensor", "Point"} -> S.dim
    [] S.kind = "complex" -> 2
    [] S.kind = "pair" -> 1

\* C22: the default pattern of a Tensor or Point of dimension dim is a List
\* with min_elements = max_elements = dim, that of a complex number a List
\* with 2 and 2, that of a pair a Map with 1 and 1; to_value with the default
\* pattern fails on every text whose number of tokens differs.
C22_FixedArity ==
  (DefaultPattern /\ T.kind \in {"Tensor", "Point", "complex", "pair"}) =>
     /\ pat.variant = (IF T.kind = "pair" THEN "Map" ELSE "List")
     /\ pat.min_elements = Arity(T)
     /\ pat.max_elements = Arity(T)
     /\ (pc = "to_value" /\ TokenCount # Arity(T)) => res = Fail("ExcNoMatch")

\* to_value("1,1") for a Tensor<1,3,int> with the default pattern has failed.
C22_Witness ==
  /\ pc = "to_value"
  /\ T = TensorOf(1, 3, Arith("int"))
  /\ DefaultPattern
  /\ str = <<"1", ",", "1">>
  /\ res = Fail("ExcNoMatch")


\* The tokens the text splits into at the pattern's separator.
Tokens == split_string_list(str, pat.separator)

\* C23: to_value for a sequence container (vector, deque, list) keeps the
\* order: the container returned has as many elements as the text has tokens
\* at the pattern's separator, and its i-th element is the conversion of the
\* i-th token.
C23_OrderPreserved ==
  (pc = "to_value" /\ T.kind = "list" /\ T.container # "set" /\ IsOk(res)) =>
     /\ Len(res[2]) = Len(Tokens)
     /\ \A i \in DOMAIN Tokens :
          to_value(T.value_type, Tokens[i], pat.pattern) = Ok(res[2][i])

\* to_value("1.5,2,3") for a vector<double> has returned 1.5, 2, 3.
C23_Witness ==
  /\ pc = "to_value"
  /\ T = VectorOf(Arith("double"))
  /\ DefaultPattern
  /\ str = <<"1", ".", "5", ",", "2", ",", "3">>
  /\ res = Ok(<<DoubleOne + DoubleOne \div 2, 2 * DoubleOne, 3 * DoubleOne>>)

\* The space at position i of s has only spaces between it and a separator.
BesideSeparator(s, i, separators) ==
  \E j \in DOMAIN s :
     /\ <<s[j]>> \in separators
     /\ \A k \in DOMAIN s : ((i < k /\ k < j) \/ (j < k /\ k < i)) => s[k] = " "

\* s from position i on, without the spaces beside a separator.
RECURSIVE WithoutSpacesBeside(_, _, _)
WithoutSpacesBeside(s, i, separators) ==
  IF i > Len(s) THEN <<>>
  ELSE (IF s[i] = " " /\ BesideSeparator(s, i, separators) THEN <<>>
        ELSE <<s[i]>>)
         \o WithoutSpacesBeside(s, i + 1, separators)

\* C24: for list-like and map-like shapes, to_value returns for a text what it
\* returns for the same text without the spaces next to the list separators
\* and key/value separators of the pattern: two texts that differ only in such
\* spaces give the same value.
C24_SpacesAtSeparators ==
  (pc = "to_value" /\ T.kind \in {"list", "map"}) =>
     res \in Outcomes(to_value(T, WithoutSpacesBeside(str, 1, Separators(pat)),
                               pat))

\* to_value("1:2, 3:1") for a map<int,int> has returned {1: 2, 3: 1}, as it
\* does for "1:2,3:1".
C24_Witness ==
  /\ pc = "to_value"
  /\ T = MapOf(Arith("int"), Arith("int"))
  /\ DefaultPattern
  /\ str = <<"1", ":", "2", ",", " ", "3", ":", "1">>
  /\ WithoutSpacesBeside(str, 1, Separators(pat))
       = <<"1", ":", "2", ",", "3", ":", "1">>
  /\ res = Ok(<<<<1, 2>>, <<3, 1>>>>)


\* C25 as stated: for a map-like shape and a Map pattern p supplied by the
\* caller, to_value converts the value tokens under p's value sub-pattern, so
\* that to_value(to_string(v, p), p) returns v also when that sub-pattern is
\* not the default one (a List of values with another separator).
C25_SuppliedValuePattern ==
  (pc = "round_trip" /\ T.kind = "map" /\ T.mapped_type # String
     /\ pat.variant = "Map") => res = Ok(value)


-----------------------------------------------------------------------------
(* Further properties of to_pattern() (SpecType).                           *)

\* The subscripts with which to_pattern() of S and of the types nested in S
\* read the two separator tables.
RECURSIVE AllSubscripts(_)
AllSubscripts(S) ==
  separator_subscripts(S).list \cup separator_subscripts(S).map
    \cup (CASE S.kind = "list" -> AllSubscripts(S.value_type)
            [] S.kind = "map" ->
                 AllSubscripts(S.key_type) \cup AllSubscripts(S.mapped_type)
            [] S.kind = "pair" -> AllSubscripts(S.Key) \cup AllSubscripts(S.Value)
            [] S.kind = "Tensor" -> AllSubscripts(Tensor_value_type(S))
            [] S.kind \in {"Point", "complex"} -> AllSubscripts(S.Number)
            [] OTHER -> {})

\* C26 as stated: for every shape whose list_rank and map_rank are at most 4,
\* every read of a separator table by to_pattern(), those of the nested
\* shapes included, uses a subscript in 0..3: the call reads nothing outside
\* the tables.
C26_LookupsWithinTables ==
  (pc \in {"to_pattern", "crash"} /\ WithinTables(T)) =>
     /\ pc # "crash"
     /\ oob = <<>>
     /\ AllSubscripts(T) \subseteq 0..(TableSize - 1)


-----------------------------------------------------------------------------
(* Further properties of the container conversions (SpecConv).              *)

\* to_value is called with a pattern of the given variant that accepts the
\* text.
AcceptedBy(variant) ==
  /\ pc = "to_value"
  /\ pat.variant = variant
  /\ match(pat, str)

\* The call has run into undefined behaviour.
RanIntoUndefined == res[1] \in {"crash", "garbage"}

\* C27 as stated: to_value for a Tensor, a Point or a complex number reads
\* and writes no component outside [0, arity), for every text and every List
\* pattern of the caller that accepts the text, also one whose bounds on the
\* number of elements differ from the arity.
C27_ComponentsWithinArity ==
  (AcceptedBy("List") /\ T.kind \in {"Tensor", "Point", "complex"}) =>
     ~RanIntoUndefined

\* C28 as stated: to_value for a pair returns an entry of a map that is not
\* empty, for every text and every Map pattern that accepts the text: it
\* never takes the first entry of an empty map, and it fails when the text
\* holds more than one entry.
C28_PairFromOneEntry ==
  (AcceptedBy("Map") /\ T.kind = "pair") =>
     /\ ~RanIntoUndefined
     /\ TokenCount > 1 => res[1] = "fail"

\* C29 as stated: for every integral type T the pattern of to_pattern()
\* accepts a decimal integer text only if its value is in [min(T), max(T)];
\* the pattern of an unsigned type rejects "-1".
C29_DerivedIntegerBounds ==
  (pc = "to_value" /\ T.kind = "arithmetic" /\ T.type \in IntegralTypes
     /\ DefaultPattern /\ IsIntegerText(str) /\ res # Fail("ExcNoMatch")) =>
     /\ numeric_limits_min(T.type) <= IntegerTextValue(str)
     /\ IntegerTextValue(str) <= numeric_limits_max(T.type)

\* The variant of pattern the conversions of S ask for.
NeededVariant(S) ==
  CASE S.kind \in {"list", "Tensor", "Point", "complex"} -> "List"
    [] S.kind \in {"map", "pair"} -> "Map"

\* C30: to_string and to_value for a list-like, Tensor, Point or complex
\* shape fail with an exception when the pattern is not a List, and for a
\* map-like or pair shape when it is not a Map: no text and no value is
\* returned, whatever the value or text, also when the pattern accepts the
\* text.
C30_WrongVariantFails ==
  (pc \in {"to_string", "to_value"}
     /\ T.kind \in {"list", "Tensor", "Point", "complex", "map", "pair"}
     /\ pat.variant # NeededVariant(T)) => res[1] = "fail"

\* to_value("1") for a vector<int> under Anything, which accepts the text,
\* has failed.
C30_Witness ==
  /\ pc = "to_value"
  /\ T = VectorOf(Arith("int"))
  /\ pat = Anything
  /\ str = <<"1">>
  /\ match(pat, str)
  /\ res = Fail("ExcMessage")

=============================================================================
